---- MODULE Spec2Model ----
(***************************************************************************)
(* Model of the ViralPod AI pipeline of src/main.py: acquisition           *)
(* (smart_downloader, save_uploaded_chunked), audio normalisation          *)
(* (convert_to_audio_optimized), the remote upload/poll handshake          *)
(* (upload_to_gemini_turbo), analysis (analyze_with_flash_lite), rendering *)
(* and cleanup as driven by main().                                        *)
(*                                                                         *)
(* File names are sequences of tokens: a token is a stem character, the    *)
(* dot, a path-unsafe character, or an extension.  All files live in the   *)
(* one directory "temp_workspace" (main.py line 315), so a path is its     *)
(* file name.                                                              *)
(***************************************************************************)
EXTENDS Integers, Sequences, FiniteSets, TLC

\* ------------------------------------------------------------------ bounds
MaxChunks == 2
MaxPolls == 3

\* --------------------------------------------------------------- constants
AllReq == {1, 2}
None == <<>>
Dot == "."
AudioExts == {"mp3", "m4a", "wav"}
UnsafeChars == {"\\", "/", "*", "?", ":", "\"", "<", ">", "|"}
States == {"STATE_UNSPECIFIED", "PROCESSING", "ACTIVE", "FAILED"}
Statuses == {200, 404}
Keys == {"cold_open_clips", "trailer_structure", "viral_shorts", "mistakes_log"}
NonDict == {"<not a dict>"}
DataSet == {{}, Keys, {"mistakes_log"}, NonDict}
BarNone == -1

DirectDownload == <<"direct_download", Dot, "mp4">>
YtNames == {<<"t", Dot, "webm">>, <<"t", Dot, "m4a">>}
UploadNames == {<<"a", Dot, "mp4">>, <<"a", "?", Dot, "mp4">>, <<"a", Dot, "mp3">>}

Inputs ==
    {[source |-> "url", http |-> h] : h \in BOOLEAN}
    \cup {[source |-> "upload", name |-> n] : n \in UploadNames}

\* --------------------------------------------------------- pure functions
sanitize_filename(filename) == SelectSeq(filename, LAMBDA c : c \notin UnsafeChars)

DotPositions(path) == {i \in 1..Len(path) : path[i] = Dot}

LastDot(path) == CHOOSE i \in DotPositions(path) : \A j \in DotPositions(path) : j <= i

\* str(input_path).rsplit(".", 1)[0]
rsplit_head(path) ==
    IF DotPositions(path) = {} THEN path ELSE SubSeq(path, 1, LastDot(path) - 1)

output_path(input_path) == rsplit_head(input_path) \o <<Dot, "mp3">>

\* A suffix test that forgets ".mp3".
endswith_audio_NoMp3(path) ==
    /\ Len(path) >= 2
    /\ path[Len(path) - 1] = Dot
    /\ path[Len(path)] \in AudioExts \ {"mp3"}

\* str(input_path).endswith((".mp3", ".m4a", ".wav"))
endswith_audio(path) ==
    /\ Len(path) >= 2
    /\ path[Len(path) - 1] = Dot
    /\ path[Len(path)] \in AudioExts

RawPaths == {DirectDownload} \cup YtNames \cup {sanitize_filename(n) : n \in UploadNames}
Paths == RawPaths \cup {output_path(p) : p \in RawPaths}

ConvOutcomes == {"ok", "decode_fail", "encode_fail", "close_fail", "remove_fail"}

\* A conversion whose decoding failure escapes the function.
convert_to_audio_optimized_Raising(input_path, outcome, files) ==
    LET out == output_path(input_path) IN
    IF endswith_audio(input_path)
    THEN [ret |-> input_path, files |-> files, how |-> "skip", raised |-> FALSE]
    ELSE IF outcome = "decode_fail" \/ files[input_path] = "none"
    THEN [ret |-> None, files |-> files, how |-> "decode_fail", raised |-> TRUE]
    ELSE IF outcome = "encode_fail"
    THEN [ret |-> input_path, files |-> [files EXCEPT ![out] = "partial"],
          how |-> "encode_fail", raised |-> FALSE]
    ELSE IF outcome \in {"close_fail", "remove_fail"}
    THEN [ret |-> input_path, files |-> [files EXCEPT ![out] = "full"],
          how |-> outcome, raised |-> FALSE]
    ELSE [ret |-> out, files |-> [files EXCEPT ![out] = "full", ![input_path] = "none"],
          how |-> "ok", raised |-> FALSE]

\* The whole body is inside try/except Exception: every failure returns input_path.
convert_to_audio_optimized(input_path, outcome, files) ==
    LET out == output_path(input_path) IN
    IF endswith_audio(input_path)
    THEN [ret |-> input_path, files |-> files, how |-> "skip", raised |-> FALSE]
    ELSE IF outcome = "decode_fail" \/ files[input_path] = "none"
    THEN [ret |-> input_path, files |-> files, how |-> "decode_fail", raised |-> FALSE]
    ELSE IF outcome = "encode_fail"
    THEN [ret |-> input_path, files |-> [files EXCEPT ![out] = "partial"],
          how |-> "encode_fail", raised |-> FALSE]
    ELSE IF outcome \in {"close_fail", "remove_fail"}
    THEN [ret |-> input_path, files |-> [files EXCEPT ![out] = "full"],
          how |-> outcome, raised |-> FALSE]
    ELSE [ret |-> out, files |-> [files EXCEPT ![out] = "full", ![input_path] = "none"],
          how |-> "ok", raised |-> FALSE]

Sat(n, max) == IF n < max THEN n + 1 ELSE n

\* The count of PROCESSING observations after the client has read state s.
Observe(n, s) == IF s = "PROCESSING" THEN Sat(n, MaxPolls) ELSE n

\* ------------------------------------------------------------------ state
VARIABLES
    pc,                 \* position of each run of main()
    input_val,          \* main: input_val / source
    raw_download_path,  \* main: raw_download_path
    final_audio_path,   \* main: final_audio_path
    chunks,             \* chunks the stream still has to deliver
    http_status,        \* status of the response of requests.get
    fs,                 \* temp_workspace: path -> "none" | "partial" | "full"
    touched,            \* paths a run has written, converted or deleted
    conv,               \* how convert_to_audio_optimized ended
    remote,             \* state of the file at the remote service
    gemini_file,        \* file.state.name as last observed by the client
    bar,                \* value of the st.progress bar
    waits,              \* time.sleep(0.5) calls of the polling loop
    requeries,          \* genai.get_file calls of the polling loop
    observed,           \* observations of the state PROCESSING by the client
    response,           \* outcome of model.generate_content
    data,               \* json.loads(response.text)
    rendered,           \* what each result section shows
    err                 \* stage whose exception reached st.error

vars == <<pc, input_val, raw_download_path, final_audio_path, chunks, http_status,
          fs, touched, conv, remote, gemini_file, bar, waits, requeries,
          observed, response, data, rendered, err>>

pathVars == <<raw_download_path, final_audio_path>>
acqVars == <<chunks, http_status>>
fileVars == <<fs, touched>>
remoteVars == <<remote, gemini_file, bar, waits, requeries, observed>>
anaVars == <<response, data, rendered>>

Init ==
    /\ pc = [r \in AllReq |-> "idle"]
    /\ input_val = [r \in AllReq |-> None]
    /\ raw_download_path = [r \in AllReq |-> None]
    /\ final_audio_path = [r \in AllReq |-> None]
    /\ chunks = [r \in AllReq |-> 0]
    /\ http_status = [r \in AllReq |-> 0]
    /\ fs = [p \in Paths |-> "none"]
    /\ touched = [r \in AllReq |-> {}]
    /\ conv = [r \in AllReq |-> "none"]
    /\ remote = [r \in AllReq |-> "none"]
    /\ gemini_file = [r \in AllReq |-> "none"]
    /\ bar = [r \in AllReq |-> BarNone]
    /\ waits = [r \in AllReq |-> 0]
    /\ requeries = [r \in AllReq |-> 0]
    /\ observed = [r \in AllReq |-> 0]
    /\ response = [r \in AllReq |-> "none"]
    /\ data = [r \in AllReq |-> {}]
    /\ rendered = [r \in AllReq |-> [k \in Keys |-> "none"]]
    /\ err = [r \in AllReq |-> "none"]

\* An exception that reaches main's "except Exception as e: st.error(...)".
Raise(r, stage) ==
    /\ pc' = [pc EXCEPT ![r] = "halted"]
    /\ err' = [err EXCEPT ![r] = stage]

Goto(r, label) ==
    /\ pc' = [pc EXCEPT ![r] = label]
    /\ UNCHANGED err

Touch(r, ps) == touched' = [touched EXCEPT ![r] = @ \cup ps]

\* ---------------------------------------------------------------- actions
\* main: the button is pressed with an input; temp_workspace is created.
Start(r) ==
    /\ pc[r] = "idle"
    /\ \E iv \in Inputs : input_val' = [input_val EXCEPT ![r] = iv]
    /\ Goto(r, "acquire")
    /\ UNCHANGED <<pathVars, acqVars, fileVars, conv, remoteVars, anaVars>>

\* smart_downloader: the yt_dlp extractor, and the choice of the fallback.
Extract(r) ==
    /\ pc[r] = "acquire"
    /\ input_val[r].source = "url"
    /\ \/ \E nm \in YtNames :
            /\ fs' = [fs EXCEPT ![nm] = "full"]
            /\ Touch(r, {nm})
            /\ raw_download_path' = [raw_download_path EXCEPT ![r] = nm]
            /\ Goto(r, "convert")
       \/ /\ input_val[r].http
          /\ Goto(r, "fetch")
          /\ UNCHANGED <<fileVars, raw_download_path>>
       \/ /\ ~input_val[r].http
          /\ Raise(r, "acquisition")
          /\ UNCHANGED <<fileVars, raw_download_path>>
    /\ UNCHANGED <<input_val, final_audio_path, acqVars, conv, remoteVars, anaVars>>

\* smart_downloader fallback: requests.get(url, stream=True); open(filename, 'wb').
Fetch(r) ==
    /\ pc[r] = "fetch"
    /\ \/ /\ Raise(r, "acquisition")
          /\ UNCHANGED <<fileVars, acqVars>>
       \/ \E s \in Statuses, n \in 0..MaxChunks :
            /\ http_status' = [http_status EXCEPT ![r] = s]
            /\ chunks' = [chunks EXCEPT ![r] = n]
            /\ fs' = [fs EXCEPT ![DirectDownload] = "partial"]
            /\ Touch(r, {DirectDownload})
            /\ Goto(r, "fetch_write")
    /\ UNCHANGED <<input_val, pathVars, conv, remoteVars, anaVars>>

Closed(files, path) ==
    [files EXCEPT ![path] = IF files[path] = "none" THEN "none" ELSE "full"]

\* smart_downloader fallback: for chunk in response.iter_content(...): f.write(chunk)
FetchChunk(r) ==
    /\ pc[r] = "fetch_write"
    /\ \/ /\ chunks[r] > 0
          /\ chunks' = [chunks EXCEPT ![r] = @ - 1]
          /\ Goto(r, "fetch_write")
          /\ UNCHANGED <<fs, raw_download_path>>
       \/ /\ chunks[r] > 0
          /\ Raise(r, "acquisition")
          /\ UNCHANGED <<fs, chunks, raw_download_path>>
       \/ /\ chunks[r] = 0
          /\ fs' = Closed(fs, DirectDownload)
          /\ raw_download_path' = [raw_download_path EXCEPT ![r] = DirectDownload]
          /\ Goto(r, "convert")
          /\ UNCHANGED chunks
    /\ UNCHANGED <<input_val, final_audio_path, http_status, touched, conv,
                   remoteVars, anaVars>>

\* main: raw_download_path = temp_dir / sanitize_filename(name);
\* save_uploaded_chunked: open(path, "wb").
SaveOpen(r) ==
    /\ pc[r] = "acquire"
    /\ input_val[r].source = "upload"
    /\ LET path == sanitize_filename(input_val[r].name) IN
        /\ raw_download_path' = [raw_download_path EXCEPT ![r] = path]
        /\ fs' = [fs EXCEPT ![path] = "partial"]
        /\ Touch(r, {path})
    /\ \E n \in 0..MaxChunks : chunks' = [chunks EXCEPT ![r] = n]
    /\ Goto(r, "save_write")
    /\ UNCHANGED <<input_val, final_audio_path, http_status, conv, remoteVars, anaVars>>

\* save_uploaded_chunked: the read/write loop, then the file is closed.
SaveChunk(r) ==
    /\ pc[r] = "save_write"
    /\ \/ /\ chunks[r] > 0
          /\ chunks' = [chunks EXCEPT ![r] = @ - 1]
          /\ Goto(r, "save_write")
          /\ UNCHANGED fs
       \/ /\ chunks[r] > 0
          /\ Raise(r, "acquisition")
          /\ UNCHANGED <<fs, chunks>>
       \/ /\ chunks[r] = 0
          /\ fs' = Closed(fs, raw_download_path[r])
          /\ Goto(r, "convert")
          /\ UNCHANGED chunks
    /\ UNCHANGED <<input_val, pathVars, http_status, touched, conv, remoteVars, anaVars>>

\* main: final_audio_path = convert_to_audio_optimized(raw_download_path)
Convert(r) ==
    /\ pc[r] = "convert"
    /\ \E outcome \in ConvOutcomes :
        LET res == convert_to_audio_optimized(raw_download_path[r], outcome, fs) IN
        /\ fs' = res.files
        /\ conv' = [conv EXCEPT ![r] = res.how]
        /\ Touch(r, IF res.how \in {"skip", "decode_fail"} THEN {}
                    ELSE {raw_download_path[r], output_path(raw_download_path[r])})
        /\ IF res.raised
           THEN Raise(r, "conversion") /\ UNCHANGED final_audio_path
           ELSE /\ final_audio_path' = [final_audio_path EXCEPT ![r] = res.ret]
                /\ Goto(r, "upload")
    /\ UNCHANGED <<input_val, raw_download_path, acqVars, remoteVars, anaVars>>

\* upload_to_gemini_turbo: genai.upload_file(...); bar = st.progress(0)
UploadFile(r) ==
    /\ pc[r] = "upload"
    /\ \/ /\ Raise(r, "upload")
          /\ UNCHANGED remoteVars
       \/ /\ fs[final_audio_path[r]] # "none"
          /\ \E s \in States :
                /\ remote' = [remote EXCEPT ![r] = s]
                /\ gemini_file' = [gemini_file EXCEPT ![r] = s]
                /\ observed' = [observed EXCEPT ![r] = Observe(@, s)]
          /\ bar' = [bar EXCEPT ![r] = 0]
          /\ Goto(r, "poll")
          /\ UNCHANGED <<waits, requeries>>
    /\ UNCHANGED <<input_val, pathVars, acqVars, fileVars, conv, anaVars>>

\* The remote service moves the uploaded file to another state on its own.
RemoteStep(r) ==
    /\ pc[r] \in {"poll", "requery"}
    /\ \E s \in States \ {remote[r]} : remote' = [remote EXCEPT ![r] = s]
    /\ UNCHANGED <<pc, err, input_val, pathVars, acqVars, fileVars, conv,
                   gemini_file, bar, waits, requeries, observed, anaVars>>

\* A loop that keeps polling until the state is ACTIVE.
PollWait_UntilActive(r) ==
    /\ pc[r] = "poll"
    /\ gemini_file[r] # "ACTIVE"
    /\ waits' = [waits EXCEPT ![r] = Sat(@, MaxPolls)]
    /\ Goto(r, "requery")
    /\ UNCHANGED <<input_val, pathVars, acqVars, fileVars, conv,
                   remote, gemini_file, bar, requeries, observed, anaVars>>

\* upload_to_gemini_turbo: while file.state.name == "PROCESSING": time.sleep(0.5)
PollWait(r) ==
    /\ pc[r] = "poll"
    /\ gemini_file[r] = "PROCESSING"
    /\ waits' = [waits EXCEPT ![r] = Sat(@, MaxPolls)]
    /\ Goto(r, "requery")
    /\ UNCHANGED <<input_val, pathVars, acqVars, fileVars, conv,
                   remote, gemini_file, bar, requeries, observed, anaVars>>

\* upload_to_gemini_turbo: bar.progress(p); file = genai.get_file(file.name)
PollQueryWith(r, p) ==
    /\ pc[r] = "requery"
    /\ bar' = [bar EXCEPT ![r] = p]
    /\ requeries' = [requeries EXCEPT ![r] = Sat(@, MaxPolls)]
    /\ \/ /\ Raise(r, "upload")
          /\ UNCHANGED <<gemini_file, observed>>
       \/ /\ gemini_file' = [gemini_file EXCEPT ![r] = remote[r]]
          /\ observed' = [observed EXCEPT ![r] = Observe(@, remote[r])]
          /\ Goto(r, "poll")
    /\ UNCHANGED <<input_val, pathVars, acqVars, fileVars, conv, remote, waits, anaVars>>

\* A poll that already shows the work as finished.
PollQuery_Full(r) == PollQueryWith(r, 100)

PollQuery(r) == PollQueryWith(r, 50)

\* upload_to_gemini_turbo: the loop condition is false; bar.progress(100)
PollExit(r) ==
    /\ pc[r] = "poll"
    /\ gemini_file[r] # "PROCESSING"
    /\ bar' = [bar EXCEPT ![r] = 100]
    /\ Goto(r, "check")
    /\ UNCHANGED <<input_val, pathVars, acqVars, fileVars, conv,
                   remote, gemini_file, waits, requeries, observed, anaVars>>

\* The states on which upload_to_gemini_turbo raises instead of returning file.
RaisingStates == {"FAILED"}

\* upload_to_gemini_turbo: bar.empty(); raise on FAILED, else return file
CheckState(r) ==
    /\ pc[r] = "check"
    /\ bar' = [bar EXCEPT ![r] = BarNone]
    /\ IF gemini_file[r] \in RaisingStates
       THEN Raise(r, "remote_failed")
       ELSE Goto(r, "analyze")
    /\ UNCHANGED <<input_val, pathVars, acqVars, fileVars, conv,
                   remote, gemini_file, waits, requeries, observed, anaVars>>

\* analyze_with_flash_lite: model.generate_content(...); json.loads(response.text)
Analyze(r) ==
    /\ pc[r] = "analyze"
    /\ \/ /\ response' = [response EXCEPT ![r] = "api_error"]
          /\ Raise(r, "analysis")
          /\ UNCHANGED data
       \/ /\ response' = [response EXCEPT ![r] = "malformed"]
          /\ Raise(r, "analysis")
          /\ UNCHANGED data
       \/ /\ response' = [response EXCEPT ![r] = "valid"]
          /\ \E d \in DataSet : data' = [data EXCEPT ![r] = d]
          /\ Goto(r, "render")
    /\ UNCHANGED <<input_val, pathVars, acqVars, fileVars, conv, remoteVars, rendered>>

\* What a section shows when data.get(key, []) is empty: viral_shorts has no else.
Placeholder(k) == IF k = "viral_shorts" THEN "heading" ELSE "message"

\* main, phase 4: the four result sections.
Render(r) ==
    /\ pc[r] = "render"
    /\ IF data[r] = NonDict
       THEN Raise(r, "render") /\ UNCHANGED rendered
       ELSE /\ rendered' = [rendered EXCEPT ![r] =
                    [k \in Keys |-> IF k \in data[r] THEN "cards" ELSE Placeholder(k)]]
            /\ Goto(r, "cleanup")
    /\ UNCHANGED <<input_val, pathVars, acqVars, fileVars, conv, remoteVars,
                   response, data>>

\* main: try: if final_audio_path: os.remove(final_audio_path)  except: pass
Cleanup(r) ==
    /\ pc[r] = "cleanup"
    /\ \/ /\ fs' = [fs EXCEPT ![final_audio_path[r]] = "none"]
          /\ Touch(r, {final_audio_path[r]})
       \/ UNCHANGED fileVars
    /\ Goto(r, "done")
    /\ UNCHANGED <<input_val, pathVars, acqVars, conv, remoteVars, anaVars>>

\* One step of the run r of main().
Step(r) ==
    \/ Start(r)
    \/ Extract(r)
    \/ Fetch(r)
    \/ FetchChunk(r)
    \/ SaveOpen(r)
    \/ SaveChunk(r)
    \/ Convert(r)
    \/ UploadFile(r)
    \/ PollWait(r)
    \/ PollQuery(r)
    \/ PollExit(r)
    \/ CheckState(r)
    \/ Analyze(r)
    \/ Render(r)
    \/ Cleanup(r)

\* One request at a time.
Next == \E r \in {1} : Step(r) \/ RemoteStep(r)

Spec == Init /\ [][Next]_vars

\* The thread of a run keeps running; the remote service owes nothing.
FairSpec == Spec /\ WF_vars(Step(1))

\* The steps of a run that write, convert or delete files of the workspace.
LocalStep(r) ==
    \/ Start(r)
    \/ Extract(r)
    \/ Fetch(r)
    \/ FetchChunk(r)
    \/ SaveOpen(r)
    \/ SaveChunk(r)
    \/ Convert(r)

\* Two sessions in flight at once: while session 1 runs main(), session 2 runs
\* main() up to the end of its ingestion phase.
NextConc ==
    \/ Step(1)
    \/ RemoteStep(1)
    \/ LocalStep(2)

ConcSpec == Init /\ [][NextConc]_vars

\* ------------------------------------------- normalisation on its own
\* convert_to_audio_optimized applied to the path it returned.
Reapply(r) ==
    /\ pc[r] = "upload"
    /\ \E outcome \in ConvOutcomes :
        LET res == convert_to_audio_optimized(final_audio_path[r], outcome, fs) IN
        /\ fs' = res.files
        /\ final_audio_path' = [final_audio_path EXCEPT ![r] = res.ret]
    /\ Goto(r, "reapplied")
    /\ UNCHANGED <<input_val, raw_download_path, acqVars, touched, conv,
                   remoteVars, anaVars>>

\* Any path of the workspace, with the input and the output file in any condition.
NormInit ==
    /\ pc = [r \in AllReq |-> IF r = 1 THEN "convert" ELSE "idle"]
    /\ input_val = [r \in AllReq |-> None]
    /\ \E p \in Paths : raw_download_path = [r \in AllReq |-> IF r = 1 THEN p ELSE None]
    /\ final_audio_path = [r \in AllReq |-> None]
    /\ chunks = [r \in AllReq |-> 0]
    /\ http_status = [r \in AllReq |-> 0]
    /\ fs \in [Paths -> {"none", "partial", "full"}]
    /\ \A p \in Paths \ {raw_download_path[1], output_path(raw_download_path[1])} :
            fs[p] = "none"
    /\ touched = [r \in AllReq |-> {}]
    /\ conv = [r \in AllReq |-> "none"]
    /\ remote = [r \in AllReq |-> "none"]
    /\ gemini_file = [r \in AllReq |-> "none"]
    /\ bar = [r \in AllReq |-> BarNone]
    /\ waits = [r \in AllReq |-> 0]
    /\ requeries = [r \in AllReq |-> 0]
    /\ observed = [r \in AllReq |-> 0]
    /\ response = [r \in AllReq |-> "none"]
    /\ data = [r \in AllReq |-> {}]
    /\ rendered = [r \in AllReq |-> [k \in Keys |-> "none"]]
    /\ err = [r \in AllReq |-> "none"]

NormNext == Convert(1) \/ Reapply(1)

NormSpec == NormInit /\ [][NormNext]_vars

\* ------------------------------------------------------------------ claims
Polling(r) == pc[r] \in {"poll", "requery"}

AfterSubmit(r) ==
    \/ pc[r] \in {"analyze", "render", "cleanup", "done"}
    \/ err[r] \in {"analysis", "render"}

Ended(r) == pc[r] \in {"done", "halted"}

InFlight(r) == pc[r] \notin {"idle", "done", "halted"}

\* C1: the progress bar never decreases, takes the values 0, 50 and 100 only,
\* and shows 100 only when the last observed remote state is not PROCESSING.
C1_ProgressMonotone ==
    /\ [](\A r \in AllReq :
            /\ bar[r] \in {BarNone, 0, 50, 100}
            /\ bar[r] = 100 => gemini_file[r] \notin {"none", "PROCESSING"})
    /\ [][\A r \in AllReq :
            (bar[r] # BarNone /\ bar'[r] # BarNone) => bar'[r] >= bar[r]]_vars

C1_Witness ==
    \E r \in AllReq : bar[r] = 100 /\ requeries[r] >= 1 /\ waits[r] >= 1

\* C2: a handle reaches analyze_with_flash_lite only in state ACTIVE, and a
\* last observed state FAILED always ends in an error.
C2_OnlyActiveHandles ==
    \A r \in AllReq :
        /\ AfterSubmit(r) => gemini_file[r] = "ACTIVE"
        /\ (gemini_file[r] = "FAILED" /\ ~Polling(r) /\ pc[r] # "check")
                => (pc[r] = "halted" /\ err[r] \in {"remote_failed", "upload"})

\* C3: the polling loop always ends, whatever the remote service reports.
C3_PollingEnds ==
    \A r \in AllReq : Polling(r) ~> ~Polling(r)

\* C4: a malformed analysis response surfaces no error and the result
\* sections are still produced.
C4_ParseFailureDegrades ==
    \A r \in AllReq :
        response[r] = "malformed" =>
            /\ err[r] = "none"
            /\ pc[r] # "halted"
            /\ pc[r] = "done" => \A k \in Keys : rendered[r][k] # "none"

\* C5: when a request has ended, on whatever path, none of the files it wrote
\* is left in the workspace.
C5_NoArtifactsLeft ==
    \A r \in AllReq :
        Ended(r) => \A p \in touched[r] : fs[p] = "none"

\* C6: after a failed acquisition the workspace holds no partially written file.
C6_NoPartialAfterAcquisitionError ==
    \A r \in AllReq :
        err[r] = "acquisition" => \A p \in touched[r] : fs[p] # "partial"

\* C7: the fallback fetch returns its file only for a 2xx response.
C7_FetchRejectsNon2xx ==
    \A r \in AllReq :
        (input_val[r] # None /\ input_val[r].source = "url"
            /\ raw_download_path[r] = DirectDownload)
        => http_status[r] \in 200..299

\* C8: convert_to_audio_optimized never raises; when it fails it returns the
\* input path and leaves the input file as it was; the input file is removed
\* only when the path of the written audio file is returned.
C8_ConvertNeverRaises ==
    [][\A r \in AllReq :
        (pc[r] = "convert" /\ pc'[r] # "convert") =>
            LET in == raw_download_path[r] IN
            /\ pc'[r] = "upload"
            /\ err'[r] = "none"
            /\ final_audio_path'[r] \in {in, output_path(in)}
            /\ conv'[r] \notin {"ok", "skip"} =>
                    (final_audio_path'[r] = in /\ fs'[in] = fs[in])
            /\ fs'[in] # fs[in] =>
                    /\ fs'[in] = "none"
                    /\ conv'[r] = "ok"
                    /\ final_audio_path'[r] = output_path(in)
                    /\ fs'[output_path(in)] = "full"]_vars

C8_Witness ==
    \E r \in AllReq :
        /\ pc[r] = "upload"
        /\ conv[r] = "remove_fail"
        /\ final_audio_path[r] = raw_download_path[r]
        /\ fs[raw_download_path[r]] = "full"
        /\ fs[output_path(raw_download_path[r])] = "full"

\* C9 as stated: whatever the first call did, a second call on the returned
\* path returns that path and changes no file.
C9_IdempotentAlways ==
    [][\A r \in AllReq :
        (pc[r] = "upload" /\ pc'[r] = "reapplied") =>
            (final_audio_path'[r] = final_audio_path[r] /\ fs' = fs)]_vars

\* C9 amended: when the first call short-circuited or converted (the returned
\* path is an audio path), a second call on the returned path returns that
\* path and changes no file.
C9_IdempotentOnAudio ==
    [][\A r \in AllReq :
        (pc[r] = "upload" /\ pc'[r] = "reapplied" /\ conv[r] \in {"ok", "skip"}) =>
            (final_audio_path'[r] = final_audio_path[r] /\ fs' = fs)]_vars

C9_Witness ==
    \E r \in AllReq :
        /\ pc[r] = "reapplied"
        /\ conv[r] = "ok"
        /\ final_audio_path[r] = output_path(raw_download_path[r])
        /\ fs[final_audio_path[r]] = "full"

\* C10: two requests in flight never write, convert or delete the same path.
C10_DistinctTempPaths ==
    \A r1, r2 \in AllReq :
        (r1 # r2 /\ InFlight(r1) /\ InFlight(r2)) => touched[r1] \cap touched[r2] = {}

\* C11: when the client has observed n times PROCESSING and then ACTIVE, the
\* polling loop has slept exactly n times and re-queried exactly n times, and
\* the handle is returned without an error.
C11_ExactPollCount ==
    \A r \in AllReq :
        (gemini_file[r] = "ACTIVE" /\ ~Polling(r)) =>
            /\ waits[r] = observed[r]
            /\ requeries[r] = observed[r]
            /\ err[r] \notin {"upload", "remote_failed"}
            /\ pc[r] = "check" \/ AfterSubmit(r)

\* Scenario D: [PROCESSING, PROCESSING, ACTIVE], two waits, handle returned.
C11_Witness ==
    \E r \in AllReq :
        /\ pc[r] = "analyze"
        /\ gemini_file[r] = "ACTIVE"
        /\ observed[r] = 2
        /\ waits[r] = 2
        /\ requeries[r] = 2
====
